---- MODULE Spec2Model ----
(***************************************************************************)
(* A model of the resource simulation: Resources (bounded counters, one    *)
(* semaphore each), Systems (workers running system_thread), and the       *)
(* shared EventQueue (a priority-ordered singly linked list, one           *)
(* semaphore).  Every sem_wait, critical section and usleep of the source  *)
(* is a step of its own, so that every interleaving of the                 *)
(* threads is explored.  A critical section is two steps: the sem_wait,    *)
(* and the body together with its sem_post.                                *)
(***************************************************************************)
EXTENDS Integers, Sequences, FiniteSets, TLC

(***************************************************************************)
(* Bounds of the model.                                                    *)
(***************************************************************************)
\* largest max_capacity of a Resource
MaxCap == 2
\* largest amount of a consumption / production rule
MaxRule == 2
\* number of EventNodes the heap can hold while the workers run: malloc
\* fails when all are in use
MaxNodes == 1
\* number of EventNodes the heap can hold when only the queue is exercised
QueueNodes == 3

(***************************************************************************)
(* Names of defs.h (status codes, priorities, system status values).       *)
(***************************************************************************)
STATUS_OK == "STATUS_OK"
STATUS_EMPTY == "STATUS_EMPTY"
STATUS_INSUFFICIENT == "STATUS_INSUFFICIENT"
STATUS_CAPACITY == "STATUS_CAPACITY"

PRIORITY_HIGH == 3
PRIORITY_LOW == 1

STANDARD == "STANDARD"
SLOW == "SLOW"
FAST == "FAST"
TERMINATE == "TERMINATE"

SystemStatus == {STANDARD, SLOW, FAST, TERMINATE}

(***************************************************************************)
(* Objects and threads.                                                    *)
(***************************************************************************)
Resources == {"r1", "r2"}
Systems == {"s1", "s2"}
\* threads that use the queue from outside the workers (the event consumer,
\* the callers of event_queue_push / event_queue_pop)
Clients == {"c1", "c2"}
Threads == Systems \cup Clients \cup {"manager"}

\* the null pointer of a Resource* / System*
NULL == "NULL"
\* a semaphore whose value is 1 (nobody is inside)
FREE == "FREE"

\* the content of an Event variable that was never initialised
NoEvent == [system |-> NULL, resource |-> NULL, status |-> "NONE",
            priority |-> 0, amount |-> 0]
NoStatus == "NONE"

VARIABLES
    \* Resource
    amount, max_capacity, mutex,
    \* System
    consumed, produced, processing_time, status, status_mutex, amount_stored,
    \* EventQueue: the linked list, size, semaphore
    head, size, queue_mutex,
    \* the number of EventNodes the heap can hold
    heap_limit,
    \* control state and locals of each thread
    pc, result_status, adjusted_processing_time, event, site,
    \* locals of the clients of event_queue_pop: *event and the return value
    out_event, ret,
    \* locals of the thread that changes a System's status
    target, new_status,
    \* ResourceArray and SystemArray: the backing storage, size and capacity
    array,
    \* history: the items given to the add calls of each array, in order,
    \* and whether an add returned because its allocation failed
    added, add_failed,
    \* history: the events given to the pushes whose node is in the queue, in
    \* the order the pushes completed, and for each linked node the place of
    \* its push in that order; the priority of the last event popped and
    \* whether a push completed since
    arrival, rank, last_popped, pushed_since_pop

resource_vars == <<amount, max_capacity, mutex>>
system_vars == <<consumed, produced, processing_time, status, status_mutex, amount_stored>>
queue_vars == <<head, size, queue_mutex, heap_limit>>
local_vars == <<result_status, adjusted_processing_time, event, site>>
client_vars == <<out_event, ret>>
array_vars == <<array, added, add_failed>>
manager_vars == <<target, new_status, array_vars>>
history_vars == <<arrival, rank, last_popped, pushed_since_pop>>

vars == <<amount, max_capacity, mutex,
          consumed, produced, processing_time, status, status_mutex, amount_stored,
          head, size, queue_mutex, heap_limit,
          pc, result_status, adjusted_processing_time, event, site,
          out_event, ret, target, new_status, array, added, add_failed,
          arrival, rank, last_popped, pushed_since_pop>>


\* the processing_time every System is created with (milliseconds)
ProcTime == 3
\* the number of add calls on an array
MaxAdds == 4

(***************************************************************************)
(* The linked list of the EventQueue: head is the sequence of the events   *)
(* of the nodes reached from queue->head by following next.                *)
(***************************************************************************)
\* the priorities of the linked nodes, from the head on
QueuePriorities == [i \in 1..Len(head) |-> head[i].priority]

\* the scan that never advances: the new node is linked right after the head
push_scan_stuck(list, current, priority) == current

\* the loop of event_queue_push: the node after which the new node is linked
RECURSIVE push_scan(_, _, _)
push_scan(list, current, priority) ==
    IF current + 1 <= Len(list) /\ list[current + 1].priority >= priority
    THEN push_scan(list, current + 1, priority)
    ELSE current

\* the head test with >= : a new event overtakes the events of its priority
push_at_head_ties(list, priority) ==
    list = <<>> \/ priority >= list[1].priority

\* the head test that always holds: every new node becomes the head
push_at_head_always(list, priority) == TRUE

\* whether the new node becomes the head
push_at_head(list, priority) ==
    list = <<>> \/ priority > list[1].priority

\* the number of nodes that stay in front of the new node
push_position(list, priority) ==
    IF push_at_head(list, priority) THEN 0 ELSE push_scan(list, 1, priority)

\* a sequence with x linked in after its first k elements
link_after(list, k, x) ==
    SubSeq(list, 1, k) \o <<x>> \o SubSeq(list, k + 1, Len(list))

\* a sequence without its element k
unlink(list, k) ==
    SubSeq(list, 1, k - 1) \o SubSeq(list, k + 1, Len(list))

(***************************************************************************)
(* The arithmetic of the critical sections of a System.                    *)
(***************************************************************************)
\* convert_consume that does not tell an empty resource from a short one
convert_consume_short(res_amount, amount_consumed) ==
    IF res_amount >= amount_consumed
    THEN [amount |-> res_amount - amount_consumed, status |-> STATUS_OK]
    ELSE [amount |-> res_amount, status |-> STATUS_INSUFFICIENT]

\* system_convert, the attempt to consume: the new amount and the status
convert_consume(res_amount, amount_consumed) ==
    IF res_amount >= amount_consumed
    THEN [amount |-> res_amount - amount_consumed, status |-> STATUS_OK]
    ELSE [amount |-> res_amount,
          status |-> IF res_amount = 0 THEN STATUS_EMPTY ELSE STATUS_INSUFFICIENT]

\* store_update without the test of the available space
store_update_overfill(res_amount, res_max_capacity, amount_to_store) ==
    [amount |-> res_amount + amount_to_store, amount_stored |-> 0]

\* store_update that forgets the rest of a partial store
store_update_drops(res_amount, res_max_capacity, amount_to_store) ==
    LET available_space == res_max_capacity - res_amount IN
    IF available_space >= amount_to_store
    THEN [amount |-> res_amount + amount_to_store, amount_stored |-> 0]
    ELSE IF available_space > 0
    THEN [amount |-> res_amount + available_space, amount_stored |-> 0]
    ELSE [amount |-> res_amount, amount_stored |-> amount_to_store]

\* system_store_resources, the update: the new amount and what stays stored
store_update(res_amount, res_max_capacity, amount_to_store) ==
    LET available_space == res_max_capacity - res_amount IN
    IF available_space >= amount_to_store
    THEN [amount |-> res_amount + amount_to_store, amount_stored |-> 0]
    ELSE IF available_space > 0
    THEN [amount |-> res_amount + available_space,
          amount_stored |-> amount_to_store - available_space]
    ELSE [amount |-> res_amount, amount_stored |-> amount_to_store]

\* system_simulate_process_time, the adjusted time for a status
adjust_time(time, st) ==
    CASE st = SLOW -> time * 2
      [] st = FAST -> time \div 2
      [] OTHER -> time

\* event_init
event_init(system, resource, st, priority, amt) ==
    [system |-> system, resource |-> resource, status |-> st,
     priority |-> priority, amount |-> amt]

\* what system_convert leaves in amount_stored after the processing time
convert_produce(stored, prod) ==
    IF prod.resource # NULL THEN stored + prod.amount ELSE 0

\* store_status that reports a success whatever stays stored
store_status_ok(stored) == STATUS_OK

\* the status system_store_resources returns after the update
store_status(stored) == IF stored # 0 THEN STATUS_CAPACITY ELSE STATUS_OK

\* the priority of the event system_run builds at a call site
site_priority(st) == IF st = "consume" THEN PRIORITY_HIGH ELSE PRIORITY_LOW

\* the resource the event of a call site is about
site_resource(s, st) == IF st = "consume" THEN consumed[s].resource ELSE produced[s].resource

(***************************************************************************)
(* system_thread: the loop of a worker.                                    *)
(***************************************************************************)
\* sem_wait(&system->status_mutex)
system_thread_wait(s) ==
    /\ pc[s] = "thread_wait"
    /\ status_mutex[s] = FREE
    /\ status_mutex' = [status_mutex EXCEPT ![s] = s]
    /\ pc' = [pc EXCEPT ![s] = "thread_read"]
    /\ UNCHANGED <<resource_vars, consumed, produced, processing_time, status,
                   amount_stored, queue_vars, local_vars, client_vars,
                   manager_vars, history_vars>>

\* thread_next that takes TERMINATE for a status like the others
thread_next_runs(current_status) == "run"

\* where the loop goes for the status it read
thread_next(current_status) == IF current_status = TERMINATE THEN "exited" ELSE "run"

\* system_thread_read that writes STANDARD back after reading the status
system_thread_read_resets(s) ==
    /\ pc[s] = "thread_read"
    /\ status_mutex' = [status_mutex EXCEPT ![s] = FREE]
    /\ status' = [status EXCEPT ![s] = STANDARD]
    /\ pc' = [pc EXCEPT ![s] = thread_next(status[s])]
    /\ UNCHANGED <<resource_vars, consumed, produced, processing_time,
                   amount_stored, queue_vars, local_vars, client_vars,
                   manager_vars, history_vars>>

\* current_status = system->status; sem_post(&system->status_mutex); break
\* on TERMINATE, else system_run
system_thread_read(s) ==
    /\ pc[s] = "thread_read"
    /\ status_mutex' = [status_mutex EXCEPT ![s] = FREE]
    /\ pc' = [pc EXCEPT ![s] = thread_next(status[s])]
    /\ UNCHANGED <<resource_vars, consumed, produced, processing_time, status,
                   amount_stored, queue_vars, local_vars, client_vars,
                   manager_vars, history_vars>>

(***************************************************************************)
(* system_run and the functions it calls.                                  *)
(***************************************************************************)
\* if (system->amount_stored == 0) system_convert(system): the entry of
\* system_convert up to the test of consumed_resource
system_run_enter(s) ==
    /\ pc[s] = "run"
    /\ IF amount_stored[s] = 0
       THEN IF consumed[s].resource = NULL
            THEN /\ result_status' = [result_status EXCEPT ![s] = STATUS_OK]
                 /\ pc' = [pc EXCEPT ![s] = "simulate_wait"]
            ELSE /\ pc' = [pc EXCEPT ![s] = "convert_wait"]
                 /\ UNCHANGED result_status
       ELSE /\ pc' = [pc EXCEPT ![s] = "store_check"]
            /\ UNCHANGED result_status
    /\ UNCHANGED <<resource_vars, system_vars, queue_vars,
                   adjusted_processing_time, event, site, client_vars,
                   manager_vars, history_vars>>

\* system_convert_wait that goes on without the semaphore
system_convert_wait_unlocked(s) ==
    /\ pc[s] = "convert_wait"
    /\ pc' = [pc EXCEPT ![s] = "convert_consume"]
    /\ UNCHANGED <<resource_vars, system_vars, queue_vars, local_vars,
                   client_vars, manager_vars, history_vars>>

\* sem_wait(&consumed_resource->mutex)
system_convert_wait(s) ==
    /\ pc[s] = "convert_wait"
    /\ mutex[consumed[s].resource] = FREE
    /\ mutex' = [mutex EXCEPT ![consumed[s].resource] = s]
    /\ pc' = [pc EXCEPT ![s] = "convert_consume"]
    /\ UNCHANGED <<amount, max_capacity, system_vars, queue_vars, local_vars,
                   client_vars, manager_vars, history_vars>>

\* the attempt to consume the required resources, and
\* sem_post(&consumed_resource->mutex); on STATUS_OK go on to the processing
\* time, else return the status
system_convert_consume(s) ==
    /\ pc[s] = "convert_consume"
    /\ LET r == consumed[s].resource
           c == convert_consume(amount[r], consumed[s].amount) IN
       /\ amount' = [amount EXCEPT ![r] = c.amount]
       /\ result_status' = [result_status EXCEPT ![s] = c.status]
       /\ mutex' = [mutex EXCEPT ![r] = FREE]
       /\ pc' = [pc EXCEPT ![s] = IF c.status = STATUS_OK
                                  THEN "simulate_wait" ELSE "convert_returned"]
    /\ UNCHANGED <<max_capacity, system_vars, queue_vars,
                   adjusted_processing_time, event, site, client_vars,
                   manager_vars, history_vars>>

\* system_simulate_process_time: sem_wait(&system->status_mutex)
system_simulate_wait(s) ==
    /\ pc[s] = "simulate_wait"
    /\ status_mutex[s] = FREE
    /\ status_mutex' = [status_mutex EXCEPT ![s] = s]
    /\ pc' = [pc EXCEPT ![s] = "simulate_read"]
    /\ UNCHANGED <<resource_vars, consumed, produced, processing_time, status,
                   amount_stored, queue_vars, local_vars, client_vars,
                   manager_vars, history_vars>>

\* system_simulate_read that keeps the status lock across the usleep
system_simulate_read_locked(s) ==
    /\ pc[s] = "simulate_read"
    /\ adjusted_processing_time' = [adjusted_processing_time EXCEPT ![s] =
                                      adjust_time(processing_time[s], status[s])]
    /\ pc' = [pc EXCEPT ![s] = "simulate_sleep"]
    /\ UNCHANGED <<resource_vars, system_vars, queue_vars, result_status,
                   event, site, client_vars, manager_vars, history_vars>>

\* current_status = system->status; sem_post(&system->status_mutex); the
\* switch on current_status; usleep begins
system_simulate_read(s) ==
    /\ pc[s] = "simulate_read"
    /\ status_mutex' = [status_mutex EXCEPT ![s] = FREE]
    /\ adjusted_processing_time' = [adjusted_processing_time EXCEPT ![s] =
                                      adjust_time(processing_time[s], status[s])]
    /\ pc' = [pc EXCEPT ![s] = "simulate_sleep"]
    /\ UNCHANGED <<resource_vars, consumed, produced, processing_time, status,
                   amount_stored, queue_vars, result_status, event, site,
                   client_vars, manager_vars, history_vars>>

\* usleep(adjusted_processing_time * 1000) ends; system_convert accounts for
\* what was produced and returns
system_simulate_sleep(s) ==
    /\ pc[s] = "simulate_sleep"
    /\ amount_stored' = [amount_stored EXCEPT ![s] = convert_produce(amount_stored[s], produced[s])]
    /\ adjusted_processing_time' = [adjusted_processing_time EXCEPT ![s] = 0]
    /\ pc' = [pc EXCEPT ![s] = "convert_returned"]
    /\ UNCHANGED <<resource_vars, consumed, produced, processing_time, status,
                   status_mutex, queue_vars, result_status, event, site,
                   client_vars, manager_vars, history_vars>>

\* run_report that goes on after a failure without an event
run_report_silent(s, st, next_pc) ==
    /\ pc' = [pc EXCEPT ![s] = next_pc]
    /\ result_status' = [result_status EXCEPT ![s] = NoStatus]
    /\ UNCHANGED <<site, event>>

\* system_run after a call returned result_status: on a failure, start to
\* build the event (with a NULL resource the event is complete at once)
run_report(s, st, next_pc) ==
    IF result_status[s] # STATUS_OK
    THEN /\ site' = [site EXCEPT ![s] = st]
         /\ IF site_resource(s, st) # NULL
            THEN /\ pc' = [pc EXCEPT ![s] = "event_wait"]
                 /\ UNCHANGED <<event, result_status>>
            ELSE /\ event' = [event EXCEPT ![s] =
                                event_init(s, NULL, result_status[s], site_priority(st), 0)]
                 /\ result_status' = [result_status EXCEPT ![s] = NoStatus]
                 /\ pc' = [pc EXCEPT ![s] = "push_wait"]
    ELSE /\ pc' = [pc EXCEPT ![s] = next_pc]
         /\ result_status' = [result_status EXCEPT ![s] = NoStatus]
         /\ UNCHANGED <<site, event>>

\* if (result_status != STATUS_OK) after system_convert
system_run_after_convert(s) ==
    /\ pc[s] = "convert_returned"
    /\ run_report(s, "consume", "store_check")
    /\ UNCHANGED <<resource_vars, system_vars, queue_vars,
                   adjusted_processing_time, client_vars,
                   manager_vars, history_vars>>

\* sem_wait(&res->mutex) before the event is built
system_run_event_wait(s) ==
    /\ pc[s] = "event_wait"
    /\ mutex[site_resource(s, site[s])] = FREE
    /\ mutex' = [mutex EXCEPT ![site_resource(s, site[s])] = s]
    /\ pc' = [pc EXCEPT ![s] = "event_init"]
    /\ UNCHANGED <<amount, max_capacity, system_vars, queue_vars, local_vars,
                   client_vars, manager_vars, history_vars>>

\* system_run_event_init without the sem_post: the worker goes to the push
\* with the lock of the resource
system_run_event_init_holding(s) ==
    /\ pc[s] = "event_init"
    /\ LET res == site_resource(s, site[s]) IN
       event' = [event EXCEPT ![s] =
                   event_init(s, res, result_status[s], site_priority(site[s]), amount[res])]
    /\ result_status' = [result_status EXCEPT ![s] = NoStatus]
    /\ pc' = [pc EXCEPT ![s] = "push_wait"]
    /\ UNCHANGED <<resource_vars, system_vars, queue_vars,
                   adjusted_processing_time, site, client_vars,
                   manager_vars, history_vars>>

\* event_init(&event, system, res, result_status, priority, res->amount);
\* sem_post(&res->mutex); then event_queue_push is called
system_run_event_init(s) ==
    /\ pc[s] = "event_init"
    /\ LET res == site_resource(s, site[s]) IN
       /\ event' = [event EXCEPT ![s] =
                      event_init(s, res, result_status[s], site_priority(site[s]), amount[res])]
       /\ mutex' = [mutex EXCEPT ![res] = FREE]
    /\ result_status' = [result_status EXCEPT ![s] = NoStatus]
    /\ pc' = [pc EXCEPT ![s] = "push_wait"]
    /\ UNCHANGED <<amount, max_capacity, system_vars, queue_vars,
                   adjusted_processing_time, site, client_vars,
                   manager_vars, history_vars>>

\* usleep(SYSTEM_WAIT_TIME * 5000) ends
system_run_backoff(s) ==
    /\ pc[s] = "backoff"
    /\ pc' = [pc EXCEPT ![s] = IF site[s] = "consume" THEN "store_check" ELSE "pace"]
    /\ site' = [site EXCEPT ![s] = "none"]
    /\ UNCHANGED <<resource_vars, system_vars, queue_vars, result_status,
                   adjusted_processing_time, event, client_vars,
                   manager_vars, history_vars>>

\* system_run_store_check that calls system_store_resources whatever is stored
system_run_store_check_always(s) ==
    /\ pc[s] = "store_check"
    /\ IF produced[s].resource = NULL \/ amount_stored[s] = 0
       THEN /\ amount_stored' = [amount_stored EXCEPT ![s] = 0]
            /\ result_status' = [result_status EXCEPT ![s] = STATUS_EMPTY]
            /\ pc' = [pc EXCEPT ![s] = "store_returned"]
       ELSE /\ pc' = [pc EXCEPT ![s] = "store_wait"]
            /\ UNCHANGED <<amount_stored, result_status>>
    /\ UNCHANGED <<resource_vars, consumed, produced, processing_time, status,
                   status_mutex, queue_vars, adjusted_processing_time, event,
                   site, client_vars, manager_vars, history_vars>>

\* if (system->amount_stored > 0) system_store_resources(system): the entry
\* of system_store_resources up to the sem_wait
system_run_store_check(s) ==
    /\ pc[s] = "store_check"
    /\ IF amount_stored[s] > 0
       THEN IF produced[s].resource = NULL \/ amount_stored[s] = 0
            THEN /\ amount_stored' = [amount_stored EXCEPT ![s] = 0]
                 /\ result_status' = [result_status EXCEPT ![s] = STATUS_EMPTY]
                 /\ pc' = [pc EXCEPT ![s] = "store_returned"]
            ELSE /\ pc' = [pc EXCEPT ![s] = "store_wait"]
                 /\ UNCHANGED <<amount_stored, result_status>>
       ELSE /\ pc' = [pc EXCEPT ![s] = "pace"]
            /\ UNCHANGED <<amount_stored, result_status>>
    /\ UNCHANGED <<resource_vars, consumed, produced, processing_time, status,
                   status_mutex, queue_vars, adjusted_processing_time, event,
                   site, client_vars, manager_vars, history_vars>>

\* system_store_wait that goes on without the semaphore
system_store_wait_unlocked(s) ==
    /\ pc[s] = "store_wait"
    /\ pc' = [pc EXCEPT ![s] = "store_update"]
    /\ UNCHANGED <<resource_vars, system_vars, queue_vars, local_vars,
                   client_vars, manager_vars, history_vars>>

\* sem_wait(&produced_resource->mutex)
system_store_wait(s) ==
    /\ pc[s] = "store_wait"
    /\ mutex[produced[s].resource] = FREE
    /\ mutex' = [mutex EXCEPT ![produced[s].resource] = s]
    /\ pc' = [pc EXCEPT ![s] = "store_update"]
    /\ UNCHANGED <<amount, max_capacity, system_vars, queue_vars, local_vars,
                   client_vars, manager_vars, history_vars>>

\* available_space and the two branches that store;
\* sem_post(&produced_resource->mutex); return the status
system_store_update(s) ==
    /\ pc[s] = "store_update"
    /\ LET r == produced[s].resource
           u == store_update(amount[r], max_capacity[r], amount_stored[s]) IN
       /\ amount' = [amount EXCEPT ![r] = u.amount]
       /\ amount_stored' = [amount_stored EXCEPT ![s] = u.amount_stored]
       /\ mutex' = [mutex EXCEPT ![r] = FREE]
       /\ result_status' = [result_status EXCEPT ![s] = store_status(u.amount_stored)]
    /\ pc' = [pc EXCEPT ![s] = "store_returned"]
    /\ UNCHANGED <<max_capacity, consumed, produced, processing_time, status,
                   status_mutex, queue_vars, adjusted_processing_time, event,
                   site, client_vars, manager_vars, history_vars>>

\* if (result_status != STATUS_OK) after system_store_resources
system_run_after_store(s) ==
    /\ pc[s] = "store_returned"
    /\ run_report(s, "produce", "pace")
    /\ UNCHANGED <<resource_vars, system_vars, queue_vars,
                   adjusted_processing_time, client_vars,
                   manager_vars, history_vars>>

\* usleep(SYSTEM_WAIT_TIME * 1000) ends and system_run returns
system_run_pace(s) ==
    /\ pc[s] = "pace"
    /\ pc' = [pc EXCEPT ![s] = "thread_wait"]
    /\ UNCHANGED <<resource_vars, system_vars, queue_vars, local_vars,
                   client_vars, manager_vars, history_vars>>

(***************************************************************************)
(* event_queue_push and event_queue_pop.  The steps below say what the     *)
(* code does to the queue and to the thread that runs it; the actions      *)
(* built on them add what the caller keeps of the result and what the      *)
(* history variables record.                                               *)
(***************************************************************************)
\* where event_queue_push returns to
push_return(t) == IF t \in Systems THEN "backoff" ELSE "idle"

\* sem_wait(&queue->mutex) at the start of a push
event_queue_push_wait(t) ==
    /\ pc[t] = "push_wait"
    /\ queue_mutex = FREE
    /\ queue_mutex' = t
    /\ pc' = [pc EXCEPT ![t] = "push_alloc"]
    /\ UNCHANGED <<resource_vars, system_vars, head, size, heap_limit,
                   local_vars, client_vars, manager_vars, history_vars>>

\* malloc succeeds: the node is filled and linked at its place, size++,
\* sem_post(&queue->mutex). The caller does not read its event again.
push_insert(t) ==
    /\ pc[t] = "push_alloc"
    /\ Len(head) < heap_limit
    /\ head' = link_after(head, push_position(head, event[t].priority), event[t])
    /\ size' = size + 1
    /\ queue_mutex' = FREE
    /\ event' = [event EXCEPT ![t] = NoEvent]
    /\ pc' = [pc EXCEPT ![t] = push_return(t)]
    /\ UNCHANGED <<resource_vars, system_vars, heap_limit, result_status,
                   adjusted_processing_time, site, client_vars, manager_vars>>

\* event_queue_push_nomem that returns without the sem_post
event_queue_push_nomem_locked(t) ==
    /\ pc[t] = "push_alloc"
    /\ event' = [event EXCEPT ![t] = NoEvent]
    /\ pc' = [pc EXCEPT ![t] = push_return(t)]
    /\ UNCHANGED <<resource_vars, system_vars, queue_vars,
                   result_status, adjusted_processing_time, site, client_vars,
                   manager_vars, history_vars>>

\* malloc returns NULL: the lock is released and the push returns
event_queue_push_nomem(t) ==
    /\ pc[t] = "push_alloc"
    /\ queue_mutex' = FREE
    /\ event' = [event EXCEPT ![t] = NoEvent]
    /\ pc' = [pc EXCEPT ![t] = push_return(t)]
    /\ UNCHANGED <<resource_vars, system_vars, head, size, heap_limit,
                   result_status, adjusted_processing_time, site, client_vars,
                   manager_vars, history_vars>>

\* sem_wait(&queue->mutex) at the start of a pop
event_queue_pop_wait(t) ==
    /\ pc[t] = "pop_wait"
    /\ queue_mutex = FREE
    /\ queue_mutex' = t
    /\ pc' = [pc EXCEPT ![t] = "pop_take"]
    /\ UNCHANGED <<resource_vars, system_vars, head, size, heap_limit,
                   local_vars, client_vars, manager_vars, history_vars>>

\* the empty case that still counts a node down
pop_empty_counts(t) ==
    /\ pc[t] = "pop_take"
    /\ head = <<>>
    /\ queue_mutex' = FREE
    /\ size' = size - 1
    /\ pc' = [pc EXCEPT ![t] = "idle"]
    /\ UNCHANGED <<resource_vars, system_vars, head, heap_limit,
                   local_vars, out_event, manager_vars, history_vars>>

\* the head is NULL: the lock is released and STATUS_EMPTY returned
pop_empty(t) ==
    /\ pc[t] = "pop_take"
    /\ head = <<>>
    /\ queue_mutex' = FREE
    /\ pc' = [pc EXCEPT ![t] = "idle"]
    /\ UNCHANGED <<resource_vars, system_vars, head, size, heap_limit,
                   local_vars, out_event, manager_vars, history_vars>>

\* pop_take without the size--
pop_take_keeps_size(t) ==
    /\ pc[t] = "pop_take"
    /\ head # <<>>
    /\ head' = Tail(head)
    /\ queue_mutex' = FREE
    /\ pc' = [pc EXCEPT ![t] = "idle"]
    /\ UNCHANGED <<resource_vars, system_vars, size, heap_limit, local_vars,
                   manager_vars>>

\* the head is unlinked and freed; size--; sem_post(&queue->mutex)
pop_take(t) ==
    /\ pc[t] = "pop_take"
    /\ head # <<>>
    /\ head' = Tail(head)
    /\ size' = size - 1
    /\ queue_mutex' = FREE
    /\ pc' = [pc EXCEPT ![t] = "idle"]
    /\ UNCHANGED <<resource_vars, system_vars, heap_limit, local_vars,
                   manager_vars>>

(***************************************************************************)
(* The workers' pushes and the consumer that drains the queue while they   *)
(* run.  The consumer does not use the event it pops, and no history is    *)
(* recorded.                                                               *)
(***************************************************************************)
event_queue_push_insert(s) ==
    /\ push_insert(s)
    /\ UNCHANGED history_vars

\* the consumer calls event_queue_pop
consumer_pop(c) ==
    /\ pc[c] = "idle"
    /\ pc' = [pc EXCEPT ![c] = "pop_wait"]
    /\ UNCHANGED <<resource_vars, system_vars, queue_vars, local_vars,
                   client_vars, manager_vars, history_vars>>

consumer_pop_empty(c) ==
    /\ pop_empty(c)
    /\ UNCHANGED ret

consumer_pop_take(c) ==
    /\ pop_take(c)
    /\ UNCHANGED <<client_vars, history_vars>>

(***************************************************************************)
(* The clients of the queue: threads that call event_queue_push and        *)
(* event_queue_pop and keep what the calls return.  The history variables  *)
(* record the order in which the pushes completed.                         *)
(***************************************************************************)
\* the events a client pushes: three priorities, and two events of the same
\* priority that differ in every other field
ClientPriorities == {1, 5, 10}
ClientEvents ==
    {event_init("s1", NULL, STATUS_EMPTY, p, 0) : p \in ClientPriorities}
        \cup {event_init("s2", "r1", STATUS_CAPACITY, 5, 1)}

\* a client is done with what its last call returned and calls
\* event_queue_push(queue, &e)
client_push(c, e) ==
    /\ pc[c] = "idle"
    /\ event' = [event EXCEPT ![c] = e]
    /\ out_event' = [out_event EXCEPT ![c] = NoEvent]
    /\ ret' = [ret EXCEPT ![c] = NoStatus]
    /\ pc' = [pc EXCEPT ![c] = "push_wait"]
    /\ UNCHANGED <<resource_vars, system_vars, queue_vars, result_status,
                   adjusted_processing_time, site, manager_vars, history_vars>>

\* the push of a client links its node
client_push_insert(c) ==
    /\ push_insert(c)
    /\ arrival' = Append(arrival, event[c])
    /\ rank' = link_after(rank, push_position(head, event[c].priority), Len(arrival) + 1)
    /\ pushed_since_pop' = TRUE
    /\ UNCHANGED last_popped

\* a client is done with what its last call returned and calls
\* event_queue_pop(queue, &out_event) with an Event that holds nothing yet
client_pop(c) ==
    /\ pc[c] = "idle"
    /\ out_event' = [out_event EXCEPT ![c] = NoEvent]
    /\ ret' = [ret EXCEPT ![c] = NoStatus]
    /\ pc' = [pc EXCEPT ![c] = "pop_wait"]
    /\ UNCHANGED <<resource_vars, system_vars, queue_vars, local_vars,
                   manager_vars, history_vars>>

\* return STATUS_EMPTY
event_queue_pop_empty(c) ==
    /\ pop_empty(c)
    /\ ret' = [ret EXCEPT ![c] = STATUS_EMPTY]

\* *event = queue->head->event; return STATUS_OK
event_queue_pop_take(c) ==
    /\ pop_take(c)
    /\ out_event' = [out_event EXCEPT ![c] = head[1]]
    /\ ret' = [ret EXCEPT ![c] = STATUS_OK]
    /\ arrival' = unlink(arrival, rank[1])
    /\ rank' = [i \in 1..(Len(rank) - 1) |->
                  IF rank[i + 1] > rank[1] THEN rank[i + 1] - 1 ELSE rank[i + 1]]
    /\ last_popped' = head[1].priority
    /\ pushed_since_pop' = FALSE

(***************************************************************************)
(* The thread that changes the status of a System, under its lock.         *)
(***************************************************************************)
\* the orchestrator decides to give System s the status v; TERMINATE is final
manager_pick(s, v) ==
    /\ pc["manager"] = "idle"
    /\ status[s] # TERMINATE
    /\ status[s] # v
    /\ target' = s
    /\ new_status' = v
    /\ pc' = [pc EXCEPT !["manager"] = "manager_wait"]
    /\ UNCHANGED <<resource_vars, system_vars, queue_vars, local_vars,
                   client_vars, array_vars, history_vars>>

\* sem_wait(&system->status_mutex)
manager_wait ==
    /\ pc["manager"] = "manager_wait"
    /\ status_mutex[target] = FREE
    /\ status_mutex' = [status_mutex EXCEPT ![target] = "manager"]
    /\ pc' = [pc EXCEPT !["manager"] = "manager_set"]
    /\ UNCHANGED <<resource_vars, consumed, produced, processing_time, status,
                   amount_stored, queue_vars, local_vars, client_vars,
                   manager_vars, history_vars>>

\* system->status = new_status; sem_post(&system->status_mutex)
manager_set ==
    /\ pc["manager"] = "manager_set"
    /\ status' = [status EXCEPT ![target] = new_status]
    /\ status_mutex' = [status_mutex EXCEPT ![target] = FREE]
    /\ target' = NULL
    /\ new_status' = NoStatus
    /\ pc' = [pc EXCEPT !["manager"] = "idle"]
    /\ UNCHANGED <<resource_vars, consumed, produced, processing_time,
                   amount_stored, queue_vars, local_vars, client_vars,
                   array_vars, history_vars>>

(***************************************************************************)
(* ResourceArray and SystemArray: the growable lists of the orchestrator.  *)
(* The two have the same code; an array is a record of its backing storage *)
(* (items, as long as the capacity), its size and its capacity.            *)
(***************************************************************************)
Arrays == {"resources", "systems"}

\* the pointers an array takes
ArrayItems(a) == IF a = "resources" THEN Resources ELSE Systems

\* the content of a slot of malloc'ed storage that was never written
UNINIT == "UNINIT"

\* resource_array_init / system_array_init
array_init == [items |-> <<UNINIT>>, size |-> 0, capacity |-> 1]

\* the resize that makes room for one item more
array_resize_by_one(arr) ==
    [items |-> [i \in 1..(arr.capacity + 1) |->
                   IF i <= arr.size THEN arr.items[i] ELSE UNINIT],
     size |-> arr.size,
     capacity |-> arr.capacity + 1]

\* the resize: new storage of twice the capacity, the items copied over
array_resize(arr) ==
    [items |-> [i \in 1..(arr.capacity * 2) |->
                   IF i <= arr.size THEN arr.items[i] ELSE UNINIT],
     size |-> arr.size,
     capacity |-> arr.capacity * 2]

\* array->resources[array->size] = resource; array->size++
array_store(arr, x) ==
    [arr EXCEPT !.items[arr.size + 1] = x, !.size = @ + 1]

\* the add of an item: resize if size >= capacity, then store
array_add(a, x) ==
    /\ Len(added[a]) < MaxAdds
    /\ LET arr == array[a]
           grown == IF arr.size >= arr.capacity THEN array_resize(arr) ELSE arr
       IN  array' = [array EXCEPT ![a] = array_store(grown, x)]
    /\ added' = [added EXCEPT ![a] = Append(@, x)]
    /\ UNCHANGED <<add_failed, resource_vars, system_vars, queue_vars, pc,
                   local_vars, client_vars, target, new_status, history_vars>>

\* the add whose malloc for the resize returns NULL: it returns at once
array_add_nomem(a, x) ==
    /\ Len(added[a]) < MaxAdds
    /\ array[a].size >= array[a].capacity
    /\ added' = [added EXCEPT ![a] = Append(@, x)]
    /\ add_failed' = [add_failed EXCEPT ![a] = TRUE]
    /\ UNCHANGED <<array, resource_vars, system_vars, queue_vars, pc,
                   local_vars, client_vars, target, new_status, history_vars>>

resource_array_add(r) == array_add("resources", r)
resource_array_add_nomem(r) == array_add_nomem("resources", r)
system_array_add(s) == array_add("systems", s)
system_array_add_nomem(s) == array_add_nomem("systems", s)

\* the arrays after resource_array_init and system_array_init
InitArrays ==
    /\ array = [a \in Arrays |-> array_init]
    /\ added = [a \in Arrays |-> <<>>]
    /\ add_failed = [a \in Arrays |-> FALSE]

(***************************************************************************)
(* Initial states: what resource_create, system_create and                 *)
(* event_queue_init leave, before the threads are started.                 *)
(***************************************************************************)
\* event_queue_init, with a heap of n EventNodes
InitQueue(n) ==
    /\ head = <<>>
    /\ size = 0
    /\ queue_mutex = FREE
    /\ heap_limit = n
    /\ arrival = <<>>
    /\ rank = <<>>
    /\ last_popped = 0
    /\ pushed_since_pop = FALSE

\* the locals of the threads before they run
InitLocals ==
    /\ result_status = [s \in Systems |-> NoStatus]
    /\ adjusted_processing_time = [s \in Systems |-> 0]
    /\ event = [t \in Systems \cup Clients |-> NoEvent]
    /\ site = [s \in Systems |-> "none"]
    /\ out_event = [c \in Clients |-> NoEvent]
    /\ ret = [c \in Clients |-> NoStatus]
    /\ target = NULL
    /\ new_status = NoStatus
    /\ InitArrays

\* resource_create(amount, max_capacity) with 0 <= amount <= max_capacity
InitResources ==
    /\ max_capacity = [r \in Resources |-> MaxCap]
    /\ amount \in [Resources -> 0..MaxCap]
    /\ mutex = [r \in Resources |-> FREE]

\* system_create with the rules of a set
InitSystems(rule_set) ==
    /\ \E rules \in rule_set :
         /\ consumed = [s \in Systems |-> rules[s].consumed]
         /\ produced = [s \in Systems |-> rules[s].produced]
    /\ processing_time = [s \in Systems |-> ProcTime]
    /\ status = [s \in Systems |-> STANDARD]
    /\ status_mutex = [s \in Systems |-> FREE]
    /\ amount_stored = [s \in Systems |-> 0]

(***************************************************************************)
(* The specification of the running simulation: the two workers and the    *)
(* consumer of the queue.                                                  *)
(***************************************************************************)
Rule(cr, ca, pr, pa) ==
    [consumed |-> [resource |-> cr, amount |-> ca],
     produced |-> [resource |-> pr, amount |-> pa]]

\* the rules of the two Systems: a cycle (each consumes what the other
\* produces), or a source and a sink (a rule without a resource)
SystemRules ==
    { [s \in Systems |-> IF s = "s1" THEN Rule("r1", MaxRule, "r2", 1)
                                     ELSE Rule("r2", 1, "r1", MaxRule)],
      [s \in Systems |-> IF s = "s1" THEN Rule(NULL, 0, "r1", MaxRule)
                                     ELSE Rule("r1", 1, NULL, 0)] }

Consumers == {"c1"}

Init ==
    /\ InitResources
    /\ InitSystems(SystemRules)
    /\ InitQueue(MaxNodes)
    /\ InitLocals
    /\ pc = [t \in Threads |-> IF t \in Systems THEN "thread_wait" ELSE "idle"]

Worker(s) ==
    \/ system_thread_wait(s)
    \/ system_thread_read(s)
    \/ system_run_enter(s)
    \/ system_convert_wait(s)
    \/ system_convert_consume(s)
    \/ system_simulate_wait(s)
    \/ system_simulate_read(s)
    \/ system_simulate_sleep(s)
    \/ system_run_after_convert(s)
    \/ system_run_event_wait(s)
    \/ system_run_event_init(s)
    \/ event_queue_push_wait(s)
    \/ event_queue_push_insert(s)
    \/ event_queue_push_nomem(s)
    \/ system_run_backoff(s)
    \/ system_run_store_check(s)
    \/ system_store_wait(s)
    \/ system_store_update(s)
    \/ system_run_after_store(s)
    \/ system_run_pace(s)

Consumer(c) ==
    \/ consumer_pop(c)
    \/ event_queue_pop_wait(c)
    \/ consumer_pop_empty(c)
    \/ consumer_pop_take(c)

Next ==
    \/ \E s \in Systems : Worker(s)
    \/ \E c \in Consumers : Consumer(c)

Spec == Init /\ [][Next]_vars

(***************************************************************************)
(* The specification of the queue alone: clients push events of several    *)
(* priorities and pop them, in any interleaving; the workers do not run.   *)
(***************************************************************************)
InitQueueOnly ==
    /\ InitResources
    /\ amount = [r \in Resources |-> 0]
    /\ InitSystems(SystemRules)
    /\ consumed["s1"].resource = NULL
    /\ InitQueue(QueueNodes)
    /\ InitLocals
    /\ pc = [t \in Threads |-> IF t \in Systems THEN "thread_wait" ELSE "idle"]

Client(c) ==
    \/ \E e \in ClientEvents : client_push(c, e)
    \/ event_queue_push_wait(c)
    \/ client_push_insert(c)
    \/ event_queue_push_nomem(c)
    \/ client_pop(c)
    \/ event_queue_pop_wait(c)
    \/ event_queue_pop_empty(c)
    \/ event_queue_pop_take(c)

NextQueue == \E c \in Clients : Client(c)

SpecQueue == InitQueueOnly /\ [][NextQueue]_vars

(***************************************************************************)
(* The specification of two converts that contend for one resource.  Each  *)
(* worker runs system_convert once; the critical section of                *)
(* system_convert is taken one statement at a time.                        *)
(***************************************************************************)
\* the largest amount k a convert consumes
ContendUnits == 3

\* if (consumed_resource->amount >= amount_consumed), and the status of the
\* else branch
system_convert_test(s) ==
    /\ pc[s] = "convert_consume"
    /\ LET c == convert_consume(amount[consumed[s].resource], consumed[s].amount) IN
       IF c.status = STATUS_OK
       THEN /\ pc' = [pc EXCEPT ![s] = "convert_subtract"]
            /\ UNCHANGED result_status
       ELSE /\ pc' = [pc EXCEPT ![s] = "convert_post"]
            /\ result_status' = [result_status EXCEPT ![s] = c.status]
    /\ UNCHANGED <<resource_vars, system_vars, queue_vars,
                   adjusted_processing_time, event, site, client_vars,
                   manager_vars, history_vars>>

\* consumed_resource->amount -= amount_consumed; status = STATUS_OK
system_convert_subtract(s) ==
    /\ pc[s] = "convert_subtract"
    /\ amount' = [amount EXCEPT ![consumed[s].resource] = @ - consumed[s].amount]
    /\ result_status' = [result_status EXCEPT ![s] = STATUS_OK]
    /\ pc' = [pc EXCEPT ![s] = "convert_post"]
    /\ UNCHANGED <<max_capacity, mutex, system_vars, queue_vars,
                   adjusted_processing_time, event, site, client_vars,
                   manager_vars, history_vars>>

\* sem_post(&consumed_resource->mutex); on STATUS_OK go on to the processing
\* time, else return the status
system_convert_post(s) ==
    /\ pc[s] = "convert_post"
    /\ mutex' = [mutex EXCEPT ![consumed[s].resource] = FREE]
    /\ pc' = [pc EXCEPT ![s] = IF result_status[s] = STATUS_OK
                               THEN "simulate_wait" ELSE "convert_returned"]
    /\ UNCHANGED <<amount, max_capacity, system_vars, queue_vars, local_vars,
                   client_vars, manager_vars, history_vars>>

\* both Systems consume k units of r1, which holds a units, k <= a < 2k
InitContend ==
    /\ \E k \in 1..ContendUnits : \E a \in k..(2 * k - 1) :
         /\ amount = [r \in Resources |-> IF r = "r1" THEN a ELSE 0]
         /\ consumed = [s \in Systems |-> [resource |-> "r1", amount |-> k]]
    /\ max_capacity = [r \in Resources |-> 2 * ContendUnits]
    /\ mutex = [r \in Resources |-> FREE]
    /\ produced = [s \in Systems |-> [resource |-> "r2", amount |-> 1]]
    /\ processing_time = [s \in Systems |-> ProcTime]
    /\ status = [s \in Systems |-> STANDARD]
    /\ status_mutex = [s \in Systems |-> FREE]
    /\ amount_stored = [s \in Systems |-> 0]
    /\ InitQueue(MaxNodes)
    /\ InitLocals
    /\ pc = [t \in Threads |-> IF t \in Systems THEN "thread_wait" ELSE "idle"]

\* a worker up to the return of its first system_convert
Converter(s) ==
    \/ system_thread_wait(s)
    \/ system_thread_read(s)
    \/ system_run_enter(s)
    \/ system_convert_wait(s)
    \/ system_convert_test(s)
    \/ system_convert_subtract(s)
    \/ system_convert_post(s)
    \/ system_simulate_wait(s)
    \/ system_simulate_read(s)
    \/ system_simulate_sleep(s)

NextContend == \E s \in Systems : Converter(s)

SpecContend == InitContend /\ [][NextContend]_vars

(***************************************************************************)
(* The specification of the shutdown: the workers run as in Spec, nothing  *)
(* pops the queue, and the thread that changes the statuses gives each     *)
(* System the status TERMINATE.  A thread that can take a step takes it; a *)
(* worker that waits for a semaphore gets it if it is released again and   *)
(* again: the other threads release a semaphore before they sleep, and     *)
(* sem_post wakes a waiter.                                                *)
(***************************************************************************)
\* the statuses the orchestrator gives
ManagerStatuses == {TERMINATE}

\* one rule set and the resources half full
InitTerminate ==
    /\ InitResources
    /\ amount = [r \in Resources |-> 1]
    /\ InitSystems({rules \in SystemRules : rules["s1"].consumed.resource # NULL})
    /\ InitQueue(MaxNodes)
    /\ InitLocals
    /\ pc = [t \in Threads |-> IF t \in Systems THEN "thread_wait" ELSE "idle"]

Manager ==
    \/ \E s \in Systems, v \in ManagerStatuses : manager_pick(s, v)
    \/ manager_wait
    \/ manager_set

NextTerminate ==
    \/ \E s \in Systems : Worker(s)
    \/ Manager

SpecTerminate ==
    /\ InitTerminate
    /\ [][NextTerminate]_vars
    /\ \A s \in Systems : SF_vars(Worker(s))
    /\ WF_vars(manager_wait \/ manager_set)

(***************************************************************************)
(* The specification of lasting failures: a System that produces into a    *)
(* resource nobody consumes from, and a System that consumes from a        *)
(* resource nobody produces into and produces into the first one.  The     *)
(* threads are scheduled as in SpecTerminate; no status changes.           *)
(***************************************************************************)
StreamRules ==
    { [s \in Systems |-> IF s = "s1" THEN Rule(NULL, 0, "r1", MaxRule)
                                     ELSE Rule("r2", 1, "r1", 1)] }

InitStream ==
    /\ InitResources
    /\ InitSystems(StreamRules)
    /\ InitQueue(MaxNodes)
    /\ InitLocals
    /\ pc = [t \in Threads |-> IF t \in Systems THEN "thread_wait" ELSE "idle"]

SpecStream ==
    /\ InitStream
    /\ [][Next]_vars
    /\ \A s \in Systems : SF_vars(Worker(s))
    /\ \A c \in Consumers : WF_vars(Consumer(c))

(***************************************************************************)
(* The specification of the growable lists: the orchestrator adds          *)
(* resources and systems to its arrays before the threads run.             *)
(***************************************************************************)
InitArray ==
    /\ InitResources
    /\ amount = [r \in Resources |-> 0]
    /\ InitSystems(StreamRules)
    /\ InitQueue(MaxNodes)
    /\ InitLocals
    /\ pc = [t \in Threads |-> IF t \in Systems THEN "thread_wait" ELSE "idle"]

NextArray ==
    \/ \E r \in Resources : resource_array_add(r)
    \/ \E r \in Resources : resource_array_add_nomem(r)
    \/ \E s \in Systems : system_array_add(s)
    \/ \E s \in Systems : system_array_add_nomem(s)

SpecArray == InitArray /\ [][NextArray]_vars

(***************************************************************************)
(* The properties.                                                         *)
(***************************************************************************)
\* the resources a worker uses
consumes(s, r) == consumed[s].resource = r
produces(s, r) == produced[s].resource = r

\* C1: in every reachable state, whatever the interleaving of the workers'
\* system_convert and system_store_resources, every Resource has
\* 0 <= amount <= max_capacity.
C1_AmountWithinCapacity ==
    \A r \in Resources : 0 <= amount[r] /\ amount[r] <= max_capacity[r]

\* a worker has just filled a resource to its capacity and kept a rest,
\* while the other worker, which consumes from that resource, has taken its
\* lock for its own attempt
C1_Witness ==
    \E s, t \in Systems :
        /\ s # t
        /\ pc[t] = "store_returned"
        /\ result_status[t] = STATUS_CAPACITY
        /\ amount[produced[t].resource] = max_capacity[produced[t].resource]
        /\ consumes(s, produced[t].resource)
        /\ pc[s] = "convert_consume"

\* C2: after any interleaving of pushes and pops by the clients, every
\* linked node's priority is >= its successor's, and size is the number of
\* nodes reachable from head.
C2_QueueOrderedAndCounted ==
    /\ \A i \in 1..(Len(QueuePriorities) - 1) : QueuePriorities[i] >= QueuePriorities[i + 1]
    /\ size = Len(head)

\* the queue is full, holds all three priorities, and a pop has happened
C2_Witness ==
    /\ size = QueueNodes
    /\ {QueuePriorities[i] : i \in 1..Len(QueuePriorities)} = ClientPriorities
    /\ last_popped # 0

\* the step in which the pop of client c returns
pop_returns(c) == pc[c] = "pop_take" /\ pc'[c] # "pop_take"

\* among the events whose push completed and that were not popped: the
\* place of the oldest one of the highest priority
OldestHighest ==
    LET top == CHOOSE p \in {arrival[i].priority : i \in 1..Len(arrival)} :
                   \A i \in 1..Len(arrival) : arrival[i].priority <= p
    IN  CHOOSE i \in 1..Len(arrival) :
            /\ arrival[i].priority = top
            /\ \A j \in 1..(i - 1) : arrival[j].priority < top

\* C3: a pop on a non-empty queue returns STATUS_OK and removes exactly one
\* event: the oldest pushed among those of the highest priority (the other
\* nodes stay linked as they were); the event it returns equals, field for
\* field, the event that push was given.
C3_PopTakesOldestOfHighest ==
    [][\A c \in Clients :
         (pop_returns(c) /\ Len(arrival) > 0) =>
            /\ ret'[c] = STATUS_OK
            /\ out_event'[c] = arrival[OldestHighest]
            /\ \E k \in 1..Len(head) :
                 /\ rank[k] = OldestHighest
                 /\ head' = unlink(head, k)
            /\ size' = size - 1]_vars

\* a client popped one of two events of the same priority while the other,
\* pushed later, is still in the queue behind it
C3_Witness ==
    \E c \in Clients :
        /\ pc[c] = "idle"
        /\ ret[c] = STATUS_OK
        /\ Len(arrival) > 0
        /\ arrival[1].priority = out_event[c].priority
        /\ arrival[1] # out_event[c]

\* the step in which the pop of client c returns an event
pop_succeeds(c) == pop_returns(c) /\ ret'[c] = STATUS_OK

\* C4 as claimed: whatever pushes happen between them, each successful pop
\* returns a priority <= the priority of the pop before it.
C4_PopsNonIncreasing ==
    [][\A c \in Clients :
         (pop_succeeds(c) /\ last_popped # 0) =>
            out_event'[c].priority <= last_popped]_vars

\* C4 amended: a successful pop returns a priority <= the priority of the
\* pop before it when no push completed between the two pops.
C4_PopsNonIncreasingBetweenPushes ==
    [][\A c \in Clients :
         (pop_succeeds(c) /\ last_popped # 0 /\ ~pushed_since_pop) =>
            out_event'[c].priority <= last_popped]_vars

\* two pops followed each other with no push between: the first returned
\* priority 10, the second priority 5
C4_Witness ==
    \E c, d \in Clients :
        /\ c # d
        /\ pc[c] = "idle" /\ ret[c] = STATUS_OK /\ out_event[c].priority = 10
        /\ pc[d] = "idle" /\ ret[d] = STATUS_OK /\ out_event[d].priority = 5
        /\ last_popped = 5
        /\ ~pushed_since_pop

\* C5: a pop on an empty queue returns STATUS_EMPTY, leaves head, size and
\* the caller's event as they were, and releases the queue lock.
C5_PopOnEmpty ==
    [][\A c \in Clients :
         (pop_returns(c) /\ Len(arrival) = 0) =>
            /\ ret'[c] = STATUS_EMPTY
            /\ head' = head /\ size' = size
            /\ out_event'[c] = out_event[c]
            /\ queue_mutex' = FREE]_vars

\* a client got STATUS_EMPTY from a queue that was drained by an earlier pop
C5_Witness ==
    \E c \in Clients :
        /\ pc[c] = "idle"
        /\ ret[c] = STATUS_EMPTY
        /\ last_popped # 0
        /\ size = 0
        /\ queue_mutex = FREE

\* the steps of a thread: every step of a thread moves its pc
steps(t) == pc'[t] # pc[t]

\* the pcs of a worker inside system_convert after the attempt to consume
ConvertProcessing == {"simulate_wait", "simulate_read", "simulate_sleep"}

\* C6: system_convert with a present consumed resource: when
\* resource.amount >= consumed.amount it subtracts exactly consumed.amount
\* and returns STATUS_OK; when resource.amount = 0 (and consumed.amount > 0)
\* it returns STATUS_EMPTY; when 0 < resource.amount < consumed.amount it
\* returns STATUS_INSUFFICIENT; on either failure resource.amount and
\* amount_stored stay as they were. With an absent consumed resource it
\* returns STATUS_OK and touches no resource. (After the attempt the call
\* changes no resource and keeps its status until it returns.)
C6_ConvertOutcomes ==
    [][\A s \in Systems :
         /\ (pc[s] = "convert_consume" /\ steps(s)) =>
              LET r == consumed[s].resource
                  k == consumed[s].amount
                  a == amount[r] IN
              /\ r # NULL
              /\ \A q \in Resources \ {r} : amount'[q] = amount[q]
              /\ a >= k =>
                   /\ amount'[r] = a - k
                   /\ result_status'[s] = STATUS_OK
                   /\ pc'[s] = "simulate_wait"
              /\ (a = 0 /\ k > 0) =>
                   /\ result_status'[s] = STATUS_EMPTY
                   /\ pc'[s] = "convert_returned"
                   /\ amount' = amount /\ amount_stored' = amount_stored
              /\ (0 < a /\ a < k) =>
                   /\ result_status'[s] = STATUS_INSUFFICIENT
                   /\ pc'[s] = "convert_returned"
                   /\ amount' = amount /\ amount_stored' = amount_stored
         /\ (pc[s] = "run" /\ steps(s) /\ amount_stored[s] = 0
                 /\ consumed[s].resource = NULL) =>
              /\ result_status'[s] = STATUS_OK
              /\ pc'[s] = "simulate_wait"
              /\ amount' = amount
         /\ (pc[s] = "run" /\ steps(s) /\ amount_stored[s] = 0
                 /\ consumed[s].resource # NULL) =>
              /\ pc'[s] = "convert_wait"
              /\ amount' = amount
         /\ (pc[s] \in ConvertProcessing \cup {"convert_wait"} /\ steps(s)) =>
              /\ amount' = amount
              /\ pc[s] \in ConvertProcessing =>
                   /\ result_status[s] = STATUS_OK
                   /\ result_status'[s] = STATUS_OK
                   /\ pc'[s] \in ConvertProcessing \cup {"convert_returned"}]_vars

\* a convert returned STATUS_INSUFFICIENT with a resource that is neither
\* empty nor sufficient, and the other worker's convert returned
\* STATUS_EMPTY with its resource at zero
C6_Witness ==
    /\ \E s \in Systems :
         /\ pc[s] = "convert_returned"
         /\ result_status[s] = STATUS_INSUFFICIENT
         /\ 0 < amount[consumed[s].resource]
         /\ amount[consumed[s].resource] < consumed[s].amount
         /\ amount_stored[s] = 0
    /\ \E s \in Systems :
         /\ pc[s] = "convert_returned"
         /\ result_status[s] = STATUS_EMPTY
         /\ amount[consumed[s].resource] = 0

\* C7: system_store_resources with a present produced resource and
\* amount_stored = s > 0, with space = max_capacity - amount: if space >= s
\* it adds s, zeroes amount_stored and returns STATUS_OK; if 0 < space < s it
\* adds space (the resource is at max_capacity), leaves amount_stored =
\* s - space and returns STATUS_CAPACITY; if space = 0 it leaves amount and
\* amount_stored as they were and returns STATUS_CAPACITY.
C7_StoreOutcomes ==
    [][\A s \in Systems :
         /\ (pc[s] = "store_check" /\ steps(s) /\ produced[s].resource # NULL
                 /\ amount_stored[s] > 0) =>
              /\ pc'[s] = "store_wait"
              /\ amount' = amount /\ amount_stored' = amount_stored
         /\ (pc[s] = "store_wait" /\ steps(s)) =>
              /\ pc'[s] = "store_update"
              /\ amount' = amount /\ amount_stored' = amount_stored
         /\ (pc[s] = "store_update" /\ steps(s)) =>
              LET r == produced[s].resource
                  st == amount_stored[s]
                  space == max_capacity[r] - amount[r] IN
              /\ r # NULL /\ st > 0
              /\ pc'[s] = "store_returned"
              /\ \A q \in Resources \ {r} : amount'[q] = amount[q]
              /\ space >= st =>
                   /\ amount'[r] = amount[r] + st
                   /\ amount_stored'[s] = 0
                   /\ result_status'[s] = STATUS_OK
              /\ (0 < space /\ space < st) =>
                   /\ amount'[r] = amount[r] + space
                   /\ amount'[r] = max_capacity[r]
                   /\ amount_stored'[s] = st - space
                   /\ result_status'[s] = STATUS_CAPACITY
              /\ space = 0 =>
                   /\ amount'[r] = amount[r]
                   /\ amount_stored'[s] = st
                   /\ result_status'[s] = STATUS_CAPACITY]_vars

\* a store returned STATUS_CAPACITY after it stored a part: less stays
\* stored than one convert produces, and the resource is full
C7_Witness ==
    \E s \in Systems :
        /\ pc[s] = "store_returned"
        /\ result_status[s] = STATUS_CAPACITY
        /\ 0 < amount_stored[s]
        /\ amount_stored[s] < produced[s].amount
        /\ amount[produced[s].resource] = max_capacity[produced[s].resource]

\* the locks a thread holds
locks_held(t) ==
    {<<"resource", r>> : r \in {q \in Resources : mutex[q] = t}}
        \cup {<<"status", s>> : s \in {q \in Systems : status_mutex[q] = t}}
        \cup (IF queue_mutex = t THEN {<<"queue", "queue">>} ELSE {})

\* the pcs of a worker inside a usleep
SleepPoints == {"simulate_sleep", "backoff", "pace"}

\* C10: in every reachable state each worker holds at most one lock among
\* the resource locks, the status locks and the EventQueue lock, and holds
\* no lock at a sleep point (processing delay, backoff pause, pacing pause).
C10_OneLockNoneAsleep ==
    \A s \in Systems :
        /\ Cardinality(locks_held(s)) <= 1
        /\ pc[s] \in SleepPoints => locks_held(s) = {}

\* a worker is in its processing delay while the other worker holds the lock
\* of the resource the sleeper consumed from
C10_Witness ==
    \E s, t \in Systems :
        /\ s # t
        /\ pc[s] = "simulate_sleep"
        /\ consumed[s].resource # NULL
        /\ <<"resource", consumed[s].resource>> \in locks_held(t)

\* both converts returned
ContendDone == \A s \in Systems : pc[s] = "convert_returned"

\* C8: two workers each run one convert of k units against the same
\* resource, which holds a units with k <= a < 2k: in every interleaving
\* exactly one convert returns STATUS_OK, the other returns
\* STATUS_INSUFFICIENT or STATUS_EMPTY, the final amount is a - k, and the
\* amount is never negative.
C8_OneConvertWins ==
    \A a \in 0..(2 * ContendUnits) :
        amount["r1"] = a =>
            [](/\ amount["r1"] >= 0
               /\ ContendDone =>
                    /\ \E s \in Systems :
                         /\ result_status[s] = STATUS_OK
                         /\ \A t \in Systems \ {s} :
                              result_status[t] \in {STATUS_INSUFFICIENT, STATUS_EMPTY}
                    /\ amount["r1"] = a - consumed["s1"].amount)

\* both converts returned, the loser with STATUS_EMPTY: the winner took all
\* there was before the loser looked
C8_Witness ==
    /\ ContendDone
    /\ \E s \in Systems : result_status[s] = STATUS_EMPTY
    /\ \E s \in Systems : result_status[s] = STATUS_OK /\ amount_stored[s] = 1

\* C9: once the status of a System is TERMINATE and stays so, its worker
\* eventually returns from system_thread, at the next status check after the
\* cycle in progress: no system_run cycle begins under TERMINATE, the check
\* that reads TERMINATE exits without a change to a resource, to what is
\* stored or to the queue, and a worker that returned takes no further step.
C9_TerminateExits ==
    /\ \A s \in Systems : []([](status[s] = TERMINATE) => <>(pc[s] = "exited"))
    /\ [][\A s \in Systems :
            /\ (status[s] = TERMINATE /\ pc'[s] = "run") => pc[s] = "run"
            /\ (status[s] = TERMINATE /\ pc[s] = "thread_read" /\ steps(s)) =>
                 /\ pc'[s] = "exited"
                 /\ amount' = amount
                 /\ amount_stored' = amount_stored
                 /\ head' = head /\ size' = size
            /\ pc[s] = "exited" => ~steps(s)]_vars

\* a worker returned from system_thread while the other, whose status is
\* TERMINATE as well, is still in the processing delay of its last cycle
C9_Witness ==
    \E s, t \in Systems :
        /\ pc[s] = "exited"
        /\ status[t] = TERMINATE
        /\ pc[t] = "simulate_sleep"

\* the pcs of a worker at a sem_wait
WaitPoints == {"thread_wait", "simulate_wait", "convert_wait", "event_wait",
               "store_wait", "push_wait"}

\* C11: the workers cannot deadlock: no thread waits for a lock while it
\* holds another, and in every interleaving a worker that waits for a
\* resource, status or queue lock eventually acquires it.
C11_NoDeadlock ==
    /\ [](\A s \in Systems : pc[s] \in WaitPoints => locks_held(s) = {})
    /\ \A s \in Systems :
         (pc[s] \in WaitPoints) ~> (pc[s] \notin WaitPoints /\ locks_held(s) # {})

\* a worker waits for the lock of a resource that the other worker holds,
\* while the thread that sets the statuses holds the status lock of a System
C11_Witness ==
    \E s, t \in Systems :
        /\ s # t
        /\ pc[s] = "convert_wait"
        /\ mutex[consumed[s].resource] = t
        /\ \E u \in Systems : status_mutex[u] = "manager"

\* the Resource whose amount or max_capacity the next statements of a worker
\* read or write, NULL if they use none
resource_accessed(s) ==
    CASE pc[s] = "convert_consume" -> consumed[s].resource
      [] pc[s] = "store_update" -> produced[s].resource
      [] pc[s] = "event_init" -> site_resource(s, site[s])
      [] OTHER -> NULL

\* the next statement of a worker reads the status of its System
status_accessed(s) == pc[s] \in {"thread_read", "simulate_read"}

\* C12: every read or write of a Resource's amount or max_capacity by a
\* worker (system_convert, system_store_resources, the event snapshot of
\* system_run) happens while the worker holds the resource's lock, and every
\* read of the status by the worker (system_thread,
\* system_simulate_process_time) happens while it holds the status lock.
C12_AccessUnderLock ==
    /\ [](\A s \in Systems :
            /\ resource_accessed(s) # NULL => mutex[resource_accessed(s)] = s
            /\ status_accessed(s) => status_mutex[s] = s)
    /\ [][\A s \in Systems : \A r \in Resources :
            (steps(s) /\ (amount'[r] # amount[r] \/ max_capacity'[r] # max_capacity[r]))
                => (mutex[r] = s /\ resource_accessed(s) = r)]_vars
    /\ [][\A s \in Systems :
            (steps(s) /\ event'[s] # event[s] /\ event'[s].resource # NULL)
                => mutex[event'[s].resource] = s]_vars

\* a worker is about to store into a resource under its lock while the other
\* worker takes the snapshot of the other resource under that one's lock
C12_Witness ==
    \E s, t \in Systems :
        /\ s # t
        /\ pc[s] = "store_update"
        /\ pc[t] = "event_init"
        /\ mutex[produced[s].resource] = s
        /\ mutex[site_resource(t, site[t])] = t

\* a worker calls event_queue_push for a failed system_convert
pushes_for_convert(s) == pc[s] = "push_wait" /\ site[s] = "consume"

\* C13: when system_convert fails, the event the worker pushes has priority
\* HIGH, the status system_convert returned, and as amount the amount of the
\* consumed resource that caused the failure: 0 for STATUS_EMPTY, a positive
\* amount below consumed.amount for STATUS_INSUFFICIENT, in every
\* interleaving with the other worker.
C13_ConvertEventAmount ==
    \A s \in Systems :
        pushes_for_convert(s) =>
            /\ event[s].priority = PRIORITY_HIGH
            /\ event[s].status \in {STATUS_EMPTY, STATUS_INSUFFICIENT}
            /\ event[s].status = STATUS_EMPTY => event[s].amount = 0
            /\ event[s].status = STATUS_INSUFFICIENT =>
                 (0 < event[s].amount /\ event[s].amount < consumed[s].amount)

\* a worker calls event_queue_push for a system_store_resources that left
\* units un-stored
pushes_for_store(s) == pc[s] = "push_wait" /\ site[s] = "produce"

\* C14: when system_store_resources leaves units un-stored, the event the
\* worker pushes has status CAPACITY, priority LOW, and as amount the amount
\* of the produced resource right after the update of that store (the
\* resource is then full: its amount is max_capacity), in every interleaving
\* with the other worker.
C14_StoreEventAmount ==
    \A s \in Systems :
        pushes_for_store(s) =>
            /\ event[s].priority = PRIORITY_LOW
            /\ event[s].status = STATUS_CAPACITY
            /\ event[s].amount = max_capacity[produced[s].resource]

\* the step of event_queue_push that returns after malloc returned NULL:
\* nothing was linked
push_fails(t) == pc[t] = "push_alloc" /\ steps(t) /\ head' = head

\* C15: an allocation failure is surfaced to the caller as a distinct error:
\* an event_queue_push that could not allocate its node hands its caller a
\* status that differs from what a push that linked the node hands it, so
\* that the event is not dropped silently.
C15_AllocationFailureSurfaced ==
    [][\A c \in Clients :
         push_fails(c) => ret'[c] \notin {NoStatus, STATUS_OK}]_vars

\* the pcs of a thread right after one of its operations returned
ReturnPoints == {"convert_returned", "store_returned", "backoff", "idle"}

\* C16: no failure path leaves a lock held: after a system_convert that
\* fails (EMPTY, INSUFFICIENT), a system_store_resources that returns
\* CAPACITY, a pop on an empty queue or a push whose allocation fails, the
\* lock the operation took is released, and the failed part left the
\* protected state as it was (the amount, which stays within
\* [0, max_capacity]; the head and the size of the queue).
C16_FailuresReleaseLocks ==
    /\ [](\A t \in Systems \cup Consumers :
            pc[t] \in ReturnPoints => locks_held(t) = {})
    /\ [][\A s \in Systems :
            /\ (pc[s] = "convert_consume" /\ pc'[s] = "convert_returned") =>
                 /\ result_status'[s] \in {STATUS_EMPTY, STATUS_INSUFFICIENT}
                 /\ mutex[consumed[s].resource] = s
                 /\ mutex'[consumed[s].resource] = FREE
                 /\ amount' = amount
            /\ (pc[s] = "store_update" /\ steps(s)
                    /\ result_status'[s] = STATUS_CAPACITY) =>
                 LET r == produced[s].resource IN
                 /\ mutex[r] = s
                 /\ mutex'[r] = FREE
                 /\ amount'[r] = max_capacity[r]
                 /\ amount'[r] - amount[r] = amount_stored[s] - amount_stored'[s]
                 /\ amount[r] = max_capacity[r] => amount' = amount
            /\ push_fails(s) =>
                 /\ queue_mutex = s
                 /\ queue_mutex' = FREE
                 /\ size' = size]_vars
    /\ [][\A c \in Consumers :
            (pc[c] = "pop_take" /\ steps(c) /\ head = <<>>) =>
                 /\ queue_mutex = c
                 /\ queue_mutex' = FREE
                 /\ head' = head /\ size' = size]_vars

\* a convert returned INSUFFICIENT and a store returned CAPACITY, and the
\* locks of the resources are free
C16_Witness ==
    \E s, t \in Systems :
        /\ pc[s] = "convert_returned"
        /\ result_status[s] = STATUS_INSUFFICIENT
        /\ pc[t] = "store_returned"
        /\ result_status[t] = STATUS_CAPACITY
        /\ \A r \in Resources : mutex[r] = FREE

\* the condition of a failing system_convert: nothing is stored and the
\* consumed resource holds less than the rule consumes
ConsumeShort(s) ==
    /\ consumed[s].resource # NULL
    /\ amount_stored[s] = 0
    /\ amount[consumed[s].resource] < consumed[s].amount

\* the condition of a failing system_store_resources: units are stored and
\* the produced resource is full
StoreBlocked(s) ==
    /\ produced[s].resource # NULL
    /\ amount_stored[s] > 0
    /\ amount[produced[s].resource] = max_capacity[produced[s].resource]

\* C17: a failed cycle never stops or blocks the worker: as long as its
\* System is not terminated and its EMPTY/INSUFFICIENT condition or its
\* CAPACITY condition lasts, the worker keeps cycling and pushes events of
\* the same priority again and again (HIGH for the consumption, LOW for the
\* capacity).
C17_FailuresStream ==
    \A s \in Systems :
        /\ <>[](status[s] # TERMINATE /\ ConsumeShort(s)) =>
             /\ []<>(pushes_for_convert(s) /\ event[s].priority = PRIORITY_HIGH)
             /\ []<>(pc[s] = "pace")
        /\ <>[](status[s] # TERMINATE /\ StoreBlocked(s)) =>
             /\ []<>(pushes_for_store(s) /\ event[s].priority = PRIORITY_LOW)
             /\ []<>(pc[s] = "pace")

\* both conditions at once: a worker pushes for its blocked store while the
\* other pushes for its convert from an empty resource
C17_Witness ==
    \E s, t \in Systems :
        /\ StoreBlocked(s) /\ pushes_for_store(s)
        /\ ConsumeShort(t) /\ pushes_for_convert(t)
        /\ event[t].status = STATUS_EMPTY

\* a worker in a failing condition: its convert or its store cannot succeed,
\* or it is handling the failure of one (from the failed call to the end of
\* the backoff pause)
Failing(s) ==
    \/ ConsumeShort(s)
    \/ StoreBlocked(s)
    \/ result_status[s] \notin {NoStatus, STATUS_OK}
    \/ site[s] # "none"

\* C18: in every reachable state the size of the EventQueue does not exceed
\* the number of workers currently in a failing condition.
C18_SizeBoundedByFailing ==
    size <= Cardinality({s \in Systems : Failing(s)})

\* the step of event_queue_push that links the node
push_links(t) == pc[t] = "push_alloc" /\ steps(t) /\ head' # head

\* the step of event_queue_pop that unlinks the head
pop_unlinks(t) == pc[t] = "pop_take" /\ steps(t) /\ head # <<>>

\* C18, amended: the size of the EventQueue counts the events pushed and not
\* yet popped: it grows by one with each push that links a node, shrinks by
\* one with each pop that returns an event, and changes with no other step.
C18_SizeCountsPending ==
    [][/\ (\E t \in Threads : push_links(t)) => size' = size + 1
       /\ (\E t \in Threads : pop_unlinks(t)) => size' = size - 1
       /\ size' # size => \E t \in Threads : push_links(t) \/ pop_unlinks(t)
       /\ size' >= 0]_vars

\* an event is queued while no worker is in a failing condition and the
\* consumer is not popping
C18_Witness ==
    /\ size = 1
    /\ \A s \in Systems : ~Failing(s)
    /\ pc["c1"] = "idle"

\* C19: for the growable lists: init yields capacity 1 and size 0; after any
\* sequence of add calls without an allocation failure, size is the number
\* of adds and the items are at the indices 0..size-1 in the order of the
\* adds; size <= capacity always; the capacity changes only by doubling,
\* exactly when an add finds size = capacity, and never shrinks.
C19_GrowableList ==
    /\ \A a \in Arrays : array[a].capacity = 1 /\ array[a].size = 0
    /\ [](\A a \in Arrays :
            /\ array[a].size <= array[a].capacity
            /\ Len(array[a].items) = array[a].capacity
            /\ ~add_failed[a] =>
                 /\ array[a].size = Len(added[a])
                 /\ \A i \in 1..array[a].size : array[a].items[i] = added[a][i])
    /\ [][\A a \in Arrays :
            /\ array'[a].capacity # array[a].capacity =>
                 /\ array'[a].capacity = 2 * array[a].capacity
                 /\ array[a].size = array[a].capacity
            /\ (array'[a].size # array[a].size
                    /\ array[a].size = array[a].capacity) =>
                 array'[a].capacity = 2 * array[a].capacity
            /\ array'[a].size \in {array[a].size, array[a].size + 1}]_vars

\* after three adds without a failure an array has grown twice: size 3,
\* capacity 4, and the same pointer is in it twice
C19_Witness ==
    \E a \in Arrays :
        /\ ~add_failed[a]
        /\ array[a].size = 3
        /\ array[a].capacity = 4
        /\ array[a].items[1] = array[a].items[3]
        /\ array[a].items[1] # array[a].items[2]

\* the pcs of a worker inside system_convert and inside
\* system_store_resources
InConvert == {"convert_wait", "convert_consume"} \cup ConvertProcessing
InStore == {"store_wait", "store_update"}

\* C20: within one system_run cycle system_convert is attempted only if
\* amount_stored = 0 at the start, and system_store_resources only if
\* amount_stored > 0 after the convert step; a failed convert is never
\* followed by a store in the same cycle, so a cycle pushes at most one
\* event and takes at most one backoff pause; every cycle ends with the
\* pacing pause.
C20_CycleShape ==
    /\ [](\A s \in Systems :
            /\ site[s] = "consume" => amount_stored[s] = 0
            /\ pc[s] \in InStore => amount_stored[s] > 0)
    /\ [][\A s \in Systems : steps(s) =>
            /\ pc[s] = "run" =>
                 IF amount_stored[s] = 0
                 THEN pc'[s] \in InConvert
                 ELSE pc'[s] = "store_check"
            /\ pc'[s] \in InConvert => pc[s] \in InConvert \cup {"run"}
            /\ pc[s] = "store_check" =>
                 IF amount_stored[s] > 0
                 THEN pc'[s] \in InStore \cup {"store_returned"}
                 ELSE pc'[s] = "pace"
            /\ pc'[s] \in InStore => pc[s] \in InStore \cup {"store_check"}
            /\ pc'[s] = "store_check" =>
                 \/ pc[s] = "run"
                 \/ pc[s] = "convert_returned" /\ result_status[s] = STATUS_OK
                 \/ pc[s] = "backoff" /\ site[s] = "consume"
            /\ pc'[s] = "push_wait" =>
                 /\ pc[s] \in {"convert_returned", "store_returned", "event_init"}
                 /\ site'[s] \in {"consume", "produce"}
            /\ pc[s] = "push_alloc" => pc'[s] = "backoff"
            /\ pc[s] = "backoff" =>
                 IF site[s] = "consume"
                 THEN pc'[s] = "store_check" /\ amount_stored'[s] = 0
                 ELSE pc'[s] = "pace"
            /\ pc'[s] = "backoff" => pc[s] = "push_alloc"
            /\ pc[s] = "pace" => pc'[s] = "thread_wait"
            /\ pc'[s] = "thread_wait" => pc[s] = "pace"]_vars

\* both workers are in the backoff pause of their cycle, one after a failed
\* convert with nothing stored, the other after a store that kept a rest
C20_Witness ==
    \E s, t \in Systems :
        /\ pc[s] = "backoff" /\ site[s] = "consume" /\ amount_stored[s] = 0
        /\ pc[t] = "backoff" /\ site[t] = "produce" /\ amount_stored[t] > 0

\* C21: produced units are conserved: in every reachable state
\* 0 <= amount_stored <= produced.amount; a successful convert finds
\* amount_stored at 0 and sets it to exactly produced.amount; each store adds
\* to the produced resource exactly what it takes from amount_stored; no
\* other step changes amount_stored.
C21_ProducedUnitsConserved ==
    /\ [](\A s \in Systems :
            0 <= amount_stored[s] /\ amount_stored[s] <= produced[s].amount)
    /\ [][\A s \in Systems :
            /\ (pc[s] = "simulate_sleep" /\ steps(s)) =>
                 /\ amount_stored[s] = 0
                 /\ result_status[s] = STATUS_OK
                 /\ amount_stored'[s] =
                      IF produced[s].resource # NULL THEN produced[s].amount ELSE 0
                 /\ amount' = amount
            /\ (pc[s] = "store_update" /\ steps(s)) =>
                 LET r == produced[s].resource IN
                 /\ amount'[r] - amount[r] = amount_stored[s] - amount_stored'[s]
                 /\ amount'[r] >= amount[r]
                 /\ \A q \in Resources \ {r} : amount'[q] = amount[q]
            /\ amount_stored'[s] # amount_stored[s] =>
                 (steps(s) /\ pc[s] \in {"simulate_sleep", "store_update"})]_vars

\* a worker kept a rest after a partial store while the other has just
\* finished a convert and holds exactly what its rule produces
C21_Witness ==
    \E s, t \in Systems :
        /\ pc[s] = "store_returned"
        /\ 0 < amount_stored[s] /\ amount_stored[s] < produced[s].amount
        /\ pc[t] = "convert_returned"
        /\ result_status[t] = STATUS_OK
        /\ amount_stored[t] = produced[t].amount
        /\ amount_stored[t] > 0

\* C22: the worker never changes a status: every status is STANDARD after
\* system_create, no step of a worker changes any status, and every change
\* of a status is the step of the outside setter, which writes the value it
\* was given into the one system it targets.
C22_StatusChangedOnlyOutside ==
    /\ \A s \in Systems : status[s] = STANDARD
    /\ [][/\ (\E s \in Systems : steps(s)) => status' = status
          /\ status' # status =>
               /\ steps("manager")
               /\ pc["manager"] = "manager_set"
               /\ status' = [status EXCEPT ![target] = new_status]]_vars

\* a worker runs the middle of a cycle with its status already set to
\* TERMINATE from outside, the other worker's status still STANDARD
C22_Witness ==
    \E s, t \in Systems :
        /\ status[s] = TERMINATE
        /\ pc[s] \in {"simulate_sleep", "store_update"}
        /\ status[t] = STANDARD
        /\ pc["manager"] = "idle"

====
